---- MODULE Spec2Model ----
(***************************************************************************)
(* Model of the vector index of the PDF insights backend                   *)
(* (src/app/storage/index_store.py) together with the request handlers     *)
(* that drive it (src/app/api/chunks.py, src/app/api/search.py).           *)
(*                                                                         *)
(* Request handlers run on worker threads.  add_chunks_to_index is         *)
(* modelled statement by statement (one action per statement group), so    *)
(* that a crash or another thread can fall between any two of them.        *)
(* Positions in _ids and in the FAISS index are 1-based here (0-based in   *)
(* the source).                                                            *)
(***************************************************************************)
EXTENDS Integers, Sequences, FiniteSets, TLC

\* ---------------------------------------------------------------- bounds
MaxIds == 3      \* chunk ids (uuid4 values) handed out in one behaviour
MaxBatch == 2    \* chunks / embeddings passed to one add_chunks_to_index call
MaxDim == 2      \* largest embedding dimensionality modelled
MaxK == 2        \* largest k passed to search_index
MaxDocs == 2     \* documents uploaded in one behaviour

Threads == {1, 2}            \* worker threads of the request thread pool
Texts == {"a", "b"}          \* chunk texts
KRange == (0 - 1)..MaxK      \* k values a caller may pass (k <= 0 included)
KCalls == 0..MaxK            \* k values the modelled callers do pass
DocIds == 1..MaxDocs
PersonaDoc == 0              \* the persona_<hash> pseudo document id

\* ------------------------------------------------------------ embeddings
\* Embedding components are float64 values on a grid of half a float32 ulp:
\* even numbers are representable in float32, odd numbers are ties.
UnitVec(d, j, v) == [i \in 1..d |-> IF i = j THEN v ELSE 0]

\* the embeddings of dimensionality d that callers pass: one that float32
\* rounds (to the zero vector) and one that float32 represents
EmbVecs(d) == {UnitVec(d, 1, 1), UnitVec(d, d, 2)}

\* the dimensionalities callers pass: the embedder's and a differing one
Dims == {1, MaxDim}

AllEmbVecs == UNION {EmbVecs(d) : d \in Dims}

\* float64 -> float32, round to nearest, ties to even mantissa
Float32(x) ==
    IF x % 2 = 0 THEN x
    ELSE IF (x \div 2) % 2 = 0 THEN 2 * (x \div 2) ELSE 2 * ((x \div 2) + 1)

\* np.array(v, dtype='float32').reshape(1, -1)
AsFloat32Row(v) == [i \in 1..Len(v) |-> Float32(v[i])]

\* embed_texts: one vector of the embedder's dimensionality per text, in order.
\* The embedder's dimensionality (384 in the source) is scaled to MaxDim.
EmbedOne(txt) == IF txt = "a" THEN UnitVec(MaxDim, 1, 2) ELSE UnitVec(MaxDim, MaxDim, 1)

embed_texts(texts) == [i \in 1..Len(texts) |-> EmbedOne(texts[i])]

\* dimension of a fresh index when the first batch carries no embedding
FallbackDim == MaxDim

\* squared L2 distance, as IndexFlatL2 reports it
RECURSIVE SqDist(_, _, _)
SqDist(a, b, n) ==
    IF n = 0 THEN 0
    ELSE (a[n] - b[n]) * (a[n] - b[n]) + SqDist(a, b, n - 1)

\* ------------------------------------------------------------- sequences
SeqsUpTo(S, n) == UNION {[1..m -> S] : m \in 0..n}

Range(s) == {s[i] : i \in 1..Len(s)}

\* ----------------------------------------------------------------- state
VARIABLES
    faiss_available, \* FAISS_AVAILABLE, fixed when the module is imported
    index,           \* _index: [none, d, vecs]
    ids,             \* _ids
    mapping,         \* committed rows of mapping.db chunks: [chunk_id, doc_id, text]
    vectors_file,    \* vectors.npy: [exists, d, vecs]
    ids_file,        \* ids.json: [exists, ids]
    db_lock,         \* thread holding the sqlite write lock, 0 when free
    files,           \* document ids with a file in PDF_DIR
    next_doc,        \* next document id generate_doc_id hands out
    next_id,         \* next chunk id uuid4 hands out
    pc,              \* per thread: position in its handler
    loc,             \* per thread: the handler's local variables
    returned,        \* history: [chunk_id, text, emb] of every completed insert
    deleted,         \* history: document ids removed by delete_file
    boot,            \* history: how this process came up: "first", "restart", "crash"
    chunker,         \* a simple_chunk_text call: its arguments and what it returned
    st_available,    \* SENTENCE_TRANSFORMERS_AVAILABLE, fixed when embeddings is imported
    model,           \* _model of embeddings.py: [kind, id]
    hash_seed,       \* the salt of this process's str hash (PYTHONHASHSEED unset)
    epc,             \* per thread: position in embed_texts / get_model
    eloc,            \* per thread: the locals of its embed_texts call
    hash_seen,       \* history: [text, vec] of every hash-based embedding returned
    pdf_dir,         \* the files of PDF_DIR: [name, content]
    resp             \* the request of the API being handled, or its response

\* the state of the index and of its handlers
index_vars == <<faiss_available, index, ids, mapping, vectors_file, ids_file, db_lock,
                files, next_doc, next_id, pc, loc, returned, deleted, boot>>

\* the state outside the index, which no index handler touches
embed_vars == <<st_available, model, hash_seed, epc, eloc, hash_seen>>

\* the document files and the responses of the handlers over them
api_vars == <<pdf_dir, resp>>

aux == <<chunker, embed_vars, api_vars>>

vars == <<index_vars, aux>>

NoIndex == [none |-> TRUE, d |-> 0, vecs |-> <<>>]

NoVectorsFile == [exists |-> FALSE, d |-> 0, vecs |-> <<>>]

NoIdsFile == [exists |-> FALSE, ids |-> <<>>]

NoResult == [err |-> FALSE, res |-> <<>>]

Snapshot == [index |-> index, ids |-> ids, mapping |-> mapping,
             vectors_file |-> vectors_file, ids_file |-> ids_file]

NoSnapshot == [index |-> NoIndex, ids |-> <<>>, mapping |-> {},
               vectors_file |-> NoVectorsFile, ids_file |-> NoIdsFile]

\* locals of a handler; pre is history: the shared state when the call began
IdleLoc == [op |-> "none", doc |-> 0, chunks |-> <<>>, embs |-> <<>>, uuids |-> <<>>,
            i |-> 1, chunk_ids |-> <<>>, pending |-> {}, all_vecs |-> NoVectorsFile,
            error |-> "none", query |-> <<>>, k |-> 0, result |-> NoResult,
            cid |-> 0, text |-> "", out |-> <<>>, pre |-> NoSnapshot]

\* _model = None
NoModel == [kind |-> "None", id |-> 0]

\* locals of an embed_texts call: m is the model get_model returned, inst the
\* SentenceTransformer this call constructed; mode and logged are history
IdleEmbed == [texts |-> <<>>, m |-> NoModel, inst |-> NoModel, mode |-> "none",
              out |-> <<>>, logged |-> {}]

\* no simple_chunk_text call has been made
NoChunkerCall == [is_none |-> TRUE, text |-> <<>>, chunk_size |-> 0,
                  called |-> FALSE, raised |-> FALSE, chunks |-> <<>>]

\* ------------------------------------------------------------ mapping.db
\* INSERT OR REPLACE INTO chunks: chunk_id is the primary key
InsertOrReplace(rows, r) == {x \in rows : x.chunk_id # r.chunk_id} \cup {r}

RECURSIVE ApplyRows(_, _)
ApplyRows(rows, pending) ==
    IF pending = {} THEN rows
    ELSE LET r == CHOOSE x \in pending : TRUE
         IN ApplyRows(InsertOrReplace(rows, r), pending \ {r})

\* mutant: the SELECT without its WHERE clause
get_chunk_by_id_any(rows, chunk_id) ==
    IF rows # {} THEN (CHOOSE r \in rows : TRUE).text ELSE ""

\* SELECT text FROM chunks WHERE chunk_id = ?; row[0] if row else ""
get_chunk_by_id_in(rows, chunk_id) ==
    IF \E r \in rows : r.chunk_id = chunk_id
    THEN (CHOOSE r \in rows : r.chunk_id = chunk_id).text
    ELSE ""

get_chunk_by_id(chunk_id) == get_chunk_by_id_in(mapping, chunk_id)

\* ----------------------------------------------------------- FAISS index
ntotal(ix) == Len(ix.vecs)

\* IndexFlatL2.search(q, k): the k nearest rows by squared L2 distance, nearest
\* first, equal distances in row order; labels beyond ntotal are -1.
Nearest(dists, S) ==
    CHOOSE p \in S : \A p1 \in S : \/ dists[p] < dists[p1]
                                   \/ dists[p] = dists[p1] /\ p <= p1

RECURSIVE TopK(_, _, _)
TopK(dists, S, k) ==
    IF k <= 0 THEN <<>>
    ELSE IF S = {} THEN <<[idx |-> 0 - 1, dist |-> 0 - 1]>> \o TopK(dists, S, k - 1)
    ELSE <<[idx |-> Nearest(dists, S), dist |-> dists[Nearest(dists, S)]]>>
            \o TopK(dists, S \ {Nearest(dists, S)}, k - 1)

FaissSearch(ix, q, k) ==
    TopK([p \in 1..ntotal(ix) |-> SqDist(q, ix.vecs[p], ix.d)], 1..ntotal(ix), k)

\* mutant: the loop without "if idx < 0: continue" (_ids[-1] is the last id)
NoSkipHits(idl, hits) ==
    [err |-> FALSE,
     res |-> [j \in 1..Len(hits) |->
                 <<idl[IF hits[j].idx < 0 THEN Len(idl) ELSE hits[j].idx], hits[j].dist>>]]

search_index_noskip(ix, idl, query_vec, k) ==
    IF ~faiss_available THEN [err |-> FALSE, res |-> <<>>]
    ELSE IF ix.none \/ ntotal(ix) = 0 THEN [err |-> FALSE, res |-> <<>>]
    ELSE IF Len(query_vec) # ix.d \/ k <= 0 \/ Len(idl) < ntotal(ix)
         THEN [err |-> TRUE, res |-> <<>>]
         ELSE NoSkipHits(idl, FaissSearch(ix, AsFloat32Row(query_vec), k))

\* lines 123-130: the hits with idx >= 0, each as (_ids[idx], dist)
Hits(idl, kept) ==
    IF \E j \in 1..Len(kept) : kept[j].idx > Len(idl)
    THEN [err |-> TRUE, res |-> <<>>]    \* IndexError at _ids[idx]
    ELSE [err |-> FALSE,
          res |-> [j \in 1..Len(kept) |-> <<idl[kept[j].idx], kept[j].dist>>]]

\* search_index against a given in-memory index and id list
search_index_in(ix, idl, query_vec, k) ==
    IF ~faiss_available THEN [err |-> FALSE, res |-> <<>>]
    ELSE IF ix.none \/ ntotal(ix) = 0 THEN [err |-> FALSE, res |-> <<>>]
    ELSE IF Len(query_vec) # ix.d \/ k <= 0
         THEN [err |-> TRUE, res |-> <<>>]    \* faiss asserts d == self.d, k > 0
         ELSE Hits(idl, SelectSeq(FaissSearch(ix, AsFloat32Row(query_vec), k),
                                  LAMBDA h : ~(h.idx < 0)))

search_index(query_vec, k) == search_index_in(index, ids, query_vec, k)

\* mutant: _load_index that rebuilds the index but leaves _ids empty
load_index_no_ids(vf, idf) ==
    IF ~faiss_available THEN [index |-> NoIndex, ids |-> <<>>]
    ELSE IF vf.exists /\ idf.exists
         THEN [index |-> [none |-> FALSE, d |-> vf.d, vecs |-> vf.vecs], ids |-> <<>>]
         ELSE [index |-> NoIndex, ids |-> <<>>]

\* _load_index on a fresh process (_index is None): what it leaves in memory
load_index(vf, idf) ==
    IF ~faiss_available THEN [index |-> NoIndex, ids |-> <<>>]
    ELSE IF vf.exists /\ idf.exists
         THEN [index |-> [none |-> FALSE, d |-> vf.d, vecs |-> vf.vecs], ids |-> idf.ids]
         ELSE [index |-> NoIndex, ids |-> <<>>]

\* ---------------------------------------------------------------- Init
\* A fresh deployment: empty INDEX_DIR, empty PDF_DIR, _ensure_mapping_db has
\* created the chunks table and _load_index has found no files.
IndexFresh ==
    /\ index = NoIndex
    /\ ids = <<>>
    /\ mapping = {}
    /\ vectors_file = NoVectorsFile
    /\ ids_file = NoIdsFile
    /\ db_lock = 0
    /\ files = {}
    /\ next_doc = 1
    /\ next_id = 1
    /\ pc = [t \in Threads |-> "idle"]
    /\ loc = [t \in Threads |-> IdleLoc]
    /\ returned = {}
    /\ deleted = {}
    /\ boot = "first"

\* embeddings.py imported, no embed_texts call made yet
EmbedFresh ==
    /\ model = NoModel
    /\ epc = [t \in Threads |-> "idle"]
    /\ eloc = [t \in Threads |-> IdleEmbed]
    /\ hash_seen = {}

\* the "persona_analysis" dict of a response without sections
NoAnalysis == [input_documents |-> <<>>, extracted_sections |-> <<>>,
               subsection_analysis |-> <<>>]

\* the body of GET /status before any call
NoStatus == [mode |-> "none",
             services |-> [pdf_extractor |-> FALSE, search_index |-> FALSE,
                           insights |-> FALSE, tts |-> FALSE]]

\* no request handled yet.  code is the HTTP status, 0 while persona_analyze_docs
\* is between its lines 164 and 260; the fields from doc_ids to refined_texts
\* are the locals of persona_analyze_docs (history once it has answered); stage
\* is the numbered step of it that was reached, pre_dir the files of PDF_DIR
\* when it was called (history)
NoResp == [op |-> "none", code |-> 200, stage |-> "none", pre_dir |-> {},
           doc_ids |-> <<>>, input_documents |-> <<>>,
           all_pages |-> <<>>, all_chunks |-> <<>>, ranked_sections |-> <<>>,
           refined_texts |-> <<>>, fields |-> {}, result |-> NoAnalysis,
           relevant_sections |-> 0, chunk_ids |-> <<>>, status |-> NoStatus]

\* empty PDF_DIR, no request made
ApiFresh ==
    /\ pdf_dir = {}
    /\ resp = NoResp

Init ==
    /\ faiss_available \in BOOLEAN
    /\ IndexFresh
    /\ chunker = NoChunkerCall
    /\ st_available = TRUE
    /\ hash_seed = 0
    /\ EmbedFresh
    /\ ApiFresh

\* ------------------------------------------------- add_chunks_to_index
InAdd(t) == loc[t].op = "add" /\ pc[t] \notin {"idle", "done", "failed"}

\* the exception leaves the function: the connection is dropped with its
\* transaction uncommitted (rolled back), the write lock is released
Raise(t, what) ==
    /\ pc' = [pc EXCEPT ![t] = "failed"]
    /\ loc' = [loc EXCEPT ![t].error = what, ![t].pending = {}]
    /\ db_lock' = IF db_lock = t THEN 0 ELSE db_lock

\* entry of add_chunks_to_index(doc_id, chunks, embs); the uuid4 values the
\* call will use are drawn here (they do not depend on the state)
Enter(t, doc_id, chunks, embs) ==
    /\ pc[t] = "idle"
    /\ next_id + Len(chunks) - 1 <= MaxIds
    /\ next_id' = next_id + Len(chunks)
    /\ loc' = [loc EXCEPT ![t] = [IdleLoc EXCEPT !.op = "add", !.doc = doc_id,
                  !.chunks = chunks, !.embs = embs,
                  !.uuids = [j \in 1..Len(chunks) |-> next_id + j - 1],
                  !.pre = Snapshot]]
    /\ pc' = [pc EXCEPT ![t] = IF faiss_available THEN "check" ELSE "nf_exec"]
    /\ UNCHANGED <<aux, faiss_available, index, ids, mapping, vectors_file, ids_file,
                   db_lock, files, next_doc, returned, deleted, boot>>

\* a caller that passes its own embeddings
AddChunksCall(t, doc_id, chunks, embeddings) == Enter(t, doc_id, chunks, embeddings)

\* POST /doc/{doc_id}/chunk: 404 without a file; the chunks are what
\* simple_chunk_text makes of the extracted text; embeddings=None
chunk_doc(t, doc_id, chunks) ==
    /\ doc_id \in files
    /\ Enter(t, doc_id, chunks, embed_texts(chunks))

\* persona_analyze_docs, lines 238-254: the refined texts of the ranked chunks
\* go into the index under persona_<hash>; embeddings=None
persona_index(t, chunk_texts) == Enter(t, PersonaDoc, chunk_texts, embed_texts(chunk_texts))

\* degraded mode, lines 72-75: one INSERT per chunk
NoFaissExec(t) ==
    /\ pc[t] = "nf_exec"
    /\ LET l == loc[t] IN
       IF l.i > Len(l.chunks)
       THEN /\ pc' = [pc EXCEPT ![t] = "nf_commit"]
            /\ UNCHANGED <<loc, db_lock>>
       ELSE /\ db_lock \in {0, t}
            /\ db_lock' = t
            /\ loc' = [loc EXCEPT
                  ![t].pending = InsertOrReplace(l.pending,
                      [chunk_id |-> l.uuids[l.i], doc_id |-> l.doc, text |-> l.chunks[l.i]]),
                  ![t].chunk_ids = Append(l.chunk_ids, l.uuids[l.i]),
                  ![t].i = l.i + 1]
            /\ UNCHANGED pc
    /\ UNCHANGED <<aux, faiss_available, index, ids, mapping, vectors_file, ids_file,
                   files, next_doc, next_id, returned, deleted, boot>>

\* history: what a completed call returned, with the text and the embedding
\* (<<>> when none was used) the caller gave for each id
RowsReturned(l) ==
    {[chunk_id |-> l.chunk_ids[j], text |-> l.chunks[j],
      emb |-> IF j <= Len(l.embs) THEN l.embs[j] ELSE <<>>] : j \in 1..Len(l.chunk_ids)}

\* mutant: the degraded path returning without conn.commit()
NoFaissNoCommit(t) ==
    /\ pc[t] = "nf_commit"
    /\ db_lock' = IF db_lock = t THEN 0 ELSE db_lock
    /\ loc' = [loc EXCEPT ![t].pending = {}]
    /\ pc' = [pc EXCEPT ![t] = "done"]
    /\ returned' = returned \cup RowsReturned(loc[t])
    /\ UNCHANGED <<aux, faiss_available, index, ids, mapping, vectors_file, ids_file,
                   files, next_doc, next_id, deleted, boot>>

\* degraded mode, lines 76-78: commit, close, return chunk_ids
NoFaissCommit(t) ==
    /\ pc[t] = "nf_commit"
    /\ mapping' = ApplyRows(mapping, loc[t].pending)
    /\ db_lock' = IF db_lock = t THEN 0 ELSE db_lock
    /\ loc' = [loc EXCEPT ![t].pending = {}]
    /\ pc' = [pc EXCEPT ![t] = "done"]
    /\ returned' = returned \cup RowsReturned(loc[t])
    /\ UNCHANGED <<aux, faiss_available, index, ids, vectors_file, ids_file,
                   files, next_doc, next_id, deleted, boot>>

\* mutant: line 89 as "if True": every call creates a fresh index
CheckIndexAlways(t) ==
    /\ pc[t] = "check"
    /\ pc' = [pc EXCEPT ![t] = "init"]
    /\ UNCHANGED <<aux, faiss_available, index, ids, mapping, vectors_file, ids_file, db_lock,
                   files, next_doc, next_id, loc, returned, deleted, boot>>

\* line 89: if _index is None
CheckIndex(t) ==
    /\ pc[t] = "check"
    /\ pc' = [pc EXCEPT ![t] = IF index.none THEN "init" ELSE "exec"]
    /\ UNCHANGED <<aux, faiss_available, index, ids, mapping, vectors_file, ids_file, db_lock,
                   files, next_doc, next_id, loc, returned, deleted, boot>>

\* lines 91-92: dim = len(embs[0]) if embs else 384; _index = IndexFlatL2(dim)
InitIndex(t) ==
    /\ pc[t] = "init"
    /\ index' = [none |-> FALSE,
                 d |-> IF Len(loc[t].embs) > 0 THEN Len(loc[t].embs[1]) ELSE FallbackDim,
                 vecs |-> <<>>]
    /\ pc' = [pc EXCEPT ![t] = "exec"]
    /\ UNCHANGED <<aux, faiss_available, ids, mapping, vectors_file, ids_file, db_lock,
                   files, next_doc, next_id, loc, returned, deleted, boot>>

\* lines 94-97: next chunk of the loop: uuid, INSERT OR REPLACE, chunk_ids.append.
\* The INSERT opens the transaction and waits for the sqlite write lock.
ExecInsert(t) ==
    /\ pc[t] = "exec"
    /\ LET l == loc[t] IN
       IF l.i > Len(l.chunks)
       THEN /\ pc' = [pc EXCEPT ![t] = "commit"]
            /\ UNCHANGED <<loc, db_lock>>
       ELSE /\ db_lock \in {0, t}
            /\ db_lock' = t
            /\ loc' = [loc EXCEPT
                  ![t].pending = InsertOrReplace(l.pending,
                      [chunk_id |-> l.uuids[l.i], doc_id |-> l.doc, text |-> l.chunks[l.i]]),
                  ![t].chunk_ids = Append(l.chunk_ids, l.uuids[l.i])]
            /\ pc' = [pc EXCEPT ![t] = "add"]
    /\ UNCHANGED <<aux, faiss_available, index, ids, mapping, vectors_file, ids_file,
                   files, next_doc, next_id, returned, deleted, boot>>

\* lines 98-99: vec = np.array(embs[i], float32).reshape(1, -1); _index.add(vec).
\* embs[i] raises IndexError past the end of embs; add asserts the dimension.
IndexAdd(t) ==
    /\ pc[t] = "add"
    /\ LET l == loc[t] IN
       IF l.i > Len(l.embs)
       THEN Raise(t, "IndexError") /\ UNCHANGED index
       ELSE IF Len(AsFloat32Row(l.embs[l.i])) # index.d
       THEN Raise(t, "AssertionError") /\ UNCHANGED index
       ELSE /\ index' = [index EXCEPT !.vecs = Append(@, AsFloat32Row(l.embs[l.i]))]
            /\ pc' = [pc EXCEPT ![t] = "append"]
            /\ UNCHANGED <<loc, db_lock>>
    /\ UNCHANGED <<aux, faiss_available, ids, mapping, vectors_file, ids_file,
                   files, next_doc, next_id, returned, deleted, boot>>

\* line 100: _ids.append(cid)
IdsAppend(t) ==
    /\ pc[t] = "append"
    /\ ids' = Append(ids, loc[t].uuids[loc[t].i])
    /\ loc' = [loc EXCEPT ![t].i = @ + 1]
    /\ pc' = [pc EXCEPT ![t] = "exec"]
    /\ UNCHANGED <<aux, faiss_available, index, mapping, vectors_file, ids_file, db_lock,
                   files, next_doc, next_id, returned, deleted, boot>>

\* lines 101-102: conn.commit(); conn.close()
Commit(t) ==
    /\ pc[t] = "commit"
    /\ mapping' = ApplyRows(mapping, loc[t].pending)
    /\ db_lock' = IF db_lock = t THEN 0 ELSE db_lock
    /\ loc' = [loc EXCEPT ![t].pending = {}]
    /\ pc' = [pc EXCEPT ![t] = "reconstruct"]
    /\ UNCHANGED <<aux, faiss_available, index, ids, vectors_file, ids_file,
                   files, next_doc, next_id, returned, deleted, boot>>

\* mutant: all_vecs holding only the rows this call added
ReconstructBatchOnly(t) ==
    /\ pc[t] = "reconstruct"
    /\ loc' = [loc EXCEPT ![t].all_vecs =
                  [exists |-> TRUE, d |-> index.d,
                   vecs |-> SubSeq(index.vecs, ntotal(index) - Len(loc[t].chunks) + 1,
                                   ntotal(index))]]
    /\ pc' = [pc EXCEPT ![t] = "save_vecs"]
    /\ UNCHANGED <<aux, faiss_available, index, ids, mapping, vectors_file, ids_file, db_lock,
                   files, next_doc, next_id, returned, deleted, boot>>

\* lines 106-107: all_vecs = every row of the index as it is now
Reconstruct(t) ==
    /\ pc[t] = "reconstruct"
    /\ loc' = [loc EXCEPT ![t].all_vecs = [exists |-> TRUE, d |-> index.d, vecs |-> index.vecs]]
    /\ pc' = [pc EXCEPT ![t] = "save_vecs"]
    /\ UNCHANGED <<aux, faiss_available, index, ids, mapping, vectors_file, ids_file, db_lock,
                   files, next_doc, next_id, returned, deleted, boot>>

\* line 108: np.save(VECTORS_FILE, all_vecs)
SaveVectors(t) ==
    /\ pc[t] = "save_vecs"
    /\ vectors_file' = loc[t].all_vecs
    /\ pc' = [pc EXCEPT ![t] = "save_ids"]
    /\ UNCHANGED <<aux, faiss_available, index, ids, mapping, ids_file, db_lock,
                   files, next_doc, next_id, loc, returned, deleted, boot>>

\* lines 109-111: json.dump(_ids) into ids.json; return chunk_ids
SaveIds(t) ==
    /\ pc[t] = "save_ids"
    /\ ids_file' = [exists |-> TRUE, ids |-> ids]
    /\ pc' = [pc EXCEPT ![t] = "done"]
    /\ returned' = returned \cup RowsReturned(loc[t])
    /\ UNCHANGED <<aux, faiss_available, index, ids, mapping, vectors_file, db_lock,
                   files, next_doc, next_id, loc, deleted, boot>>

\* the handler's result (or error) has gone back to the caller
Return(t) ==
    /\ pc[t] \in {"done", "failed"}
    /\ pc' = [pc EXCEPT ![t] = "idle"]
    /\ loc' = [loc EXCEPT ![t] = IdleLoc]
    /\ UNCHANGED <<aux, faiss_available, index, ids, mapping, vectors_file, ids_file, db_lock,
                   files, next_doc, next_id, returned, deleted, boot>>

\* ------------------------------------------------------------- readers
\* the handler of thread t has run search_index(query_vec, k) and got `got`
Searched(t, op, text, query_vec, k, got, out) ==
    /\ pc[t] = "idle"
    /\ loc' = [loc EXCEPT ![t] = [IdleLoc EXCEPT !.op = op, !.text = text,
                  !.query = query_vec, !.k = k, !.result = got, !.out = out,
                  !.pre = Snapshot]]
    /\ pc' = [pc EXCEPT ![t] = IF got.err THEN "failed" ELSE "done"]
    /\ UNCHANGED <<aux, faiss_available, index, ids, mapping, vectors_file, ids_file, db_lock,
                   files, next_doc, next_id, returned, deleted, boot>>

\* a call of search_index(query_vec, k)
SearchIndexCall(t, query_vec, k) ==
    Searched(t, "search_index", "", query_vec, k, search_index(query_vec, k), <<>>)

\* /search, lines 18-22: every hit with the first characters of its chunk text
SearchOut(results) ==
    [j \in 1..Len(results) |->
        [chunk_id |-> results[j][1], score |-> results[j][2],
         text_snippet |-> get_chunk_by_id(results[j][1])]]

\* POST /search: q_emb = embed_texts([query]); search_index(q_emb[0], k=q.k);
\* the response pairs every hit with get_chunk_by_id(chunk_id)
SearchResponse(t, query, q, k, got) ==
    Searched(t, "search", query, q, k, got, SearchOut(got.res))

search(t, query, k) ==
    SearchResponse(t, query, embed_texts(<<query>>)[1], k,
                   search_index(embed_texts(<<query>>)[1], k))

\* a call of get_chunk_by_id(chunk_id)
GetChunkCall(t, chunk_id) ==
    /\ pc[t] = "idle"
    /\ loc' = [loc EXCEPT ![t] = [IdleLoc EXCEPT !.op = "get_chunk_by_id",
                  !.cid = chunk_id, !.text = get_chunk_by_id(chunk_id),
                  !.pre = Snapshot]]
    /\ pc' = [pc EXCEPT ![t] = "done"]
    /\ UNCHANGED <<aux, faiss_available, index, ids, mapping, vectors_file, ids_file, db_lock,
                   files, next_doc, next_id, returned, deleted, boot>>

\* ----------------------------------------------------------- documents
\* POST /files/upload: generate_doc_id, save_pdf / save_json
upload_file ==
    /\ next_doc <= MaxDocs
    /\ files' = files \cup {next_doc}
    /\ next_doc' = next_doc + 1
    /\ UNCHANGED <<aux, faiss_available, index, ids, mapping, vectors_file, ids_file, db_lock,
                   next_id, pc, loc, returned, deleted, boot>>

\* DELETE /files/{doc_id}: 404 without a file; os.remove, delete_file_metadata
delete_file(doc_id) ==
    /\ doc_id \in files
    /\ files' = files \ {doc_id}
    /\ deleted' = deleted \cup {doc_id}
    /\ UNCHANGED <<aux, faiss_available, index, ids, mapping, vectors_file, ids_file, db_lock,
                   next_doc, next_id, pc, loc, returned, boot>>

\* --------------------------------------------------------------- restart
\* every chunk_id in the id list has a mapping row and vice versa, and the
\* vectors are as many as the ids
Consistent(s) ==
    /\ Range(s.ids) = {r.chunk_id : r \in s.mapping}
    /\ ntotal(s.index) = Len(s.ids)

\* the process ends and a new one imports index_store: memory is lost, open
\* transactions are rolled back, _load_index reads the two files
Reload(how) ==
    /\ index' = load_index(vectors_file, ids_file).index
    /\ ids' = load_index(vectors_file, ids_file).ids
    /\ db_lock' = 0
    /\ pc' = [t \in Threads |-> "idle"]
    /\ loc' = [t \in Threads |-> IdleLoc]
    /\ boot' = how
    /\ UNCHANGED <<aux, faiss_available, mapping, vectors_file, ids_file,
                   files, next_doc, next_id, returned, deleted>>

\* shutdown with no insert in flight, then start
Restart ==
    /\ \A t \in Threads : ~InAdd(t)
    /\ Reload("restart")

\* the process dies inside add_chunks_to_index, then start
Crash ==
    /\ \E t \in Threads : InAdd(t)
    /\ Reload("crash")

\* ------------------------------------------------------- specifications
\* chunk lists callers pass: up to MaxBatch texts, neighbours differing
Batches == {[j \in 1..m |-> IF j % 2 = 1 THEN "a" ELSE "b"] : m \in 0..MaxBatch}

\* embeddings lists passed with a chunk list: one per chunk, or one too few
EmbeddingsFor(chunks) ==
    UNION {[1..m -> AllEmbVecs] : m \in {Len(chunks) - 1, Len(chunks)} \cap Nat}

AddBody(t) ==
    \/ NoFaissExec(t)
    \/ NoFaissCommit(t)
    \/ CheckIndex(t)
    \/ InitIndex(t)
    \/ ExecInsert(t)
    \/ IndexAdd(t)
    \/ IdsAppend(t)
    \/ Commit(t)
    \/ Reconstruct(t)
    \/ SaveVectors(t)
    \/ SaveIds(t)

AddSteps(t) == AddBody(t) \/ Return(t)

Readers(t) ==
    \/ \E q \in AllEmbVecs, k \in KCalls : SearchIndexCall(t, q, k)
    \/ \E query \in Texts, k \in KCalls : search(t, query, k)
    \/ \E c \in 1..MaxIds : GetChunkCall(t, c)

\* Spec: the index under the single-writer discipline of the design: one
\* request at a time, callers passing their own embeddings, clean restarts
Next ==
    \/ \E chunks \in Batches : \E embs \in EmbeddingsFor(chunks) :
           AddChunksCall(1, PersonaDoc, chunks, embs)
    \/ AddSteps(1)
    \/ Readers(1)
    \/ Restart

Spec == Init /\ [][Next]_vars

\* SpecCrash: as Spec, and the process may die inside add_chunks_to_index
NextCrash ==
    \/ \E chunks \in Batches : persona_index(1, chunks)
    \/ AddSteps(1)
    \/ Restart
    \/ Crash

SpecCrash == Init /\ [][NextCrash]_vars

\* SpecDocs: documents are uploaded, chunked into the index, searched, deleted
NextDocs ==
    \/ upload_file
    \/ \E doc \in DocIds, chunks \in Batches : chunk_doc(1, doc, chunks)
    \/ AddSteps(1)
    \/ \E query \in Texts, k \in KCalls : search(1, query, k)
    \/ \E doc \in DocIds : delete_file(doc)

SpecDocs == Init /\ [][NextDocs]_vars

\* SpecConc: two worker threads of the request pool, each handling requests that
\* reach add_chunks_to_index(doc_id, texts) with embeddings=None, as chunk_doc and
\* persona_analyze_docs both do (the doc_id plays no part in the index); nothing
\* in the handlers or in index_store serializes them
NextConc ==
    \/ \E t \in Threads, chunks \in Batches : persona_index(t, chunks)
    \/ \E t \in Threads : AddSteps(t)

SpecConc == Init /\ [][NextConc]_vars

\* SpecRW: the single-writer, multiple-reader discipline: thread 1 handles the
\* inserts, one at a time, while thread 2 handles searches and text lookups
NextRW ==
    \/ \E chunks \in Batches : persona_index(1, chunks)
    \/ AddSteps(1)
    \/ \E q \in EmbVecs(MaxDim), k \in 1..MaxK : SearchIndexCall(2, q, k)
    \/ \E c \in 1..MaxIds : GetChunkCall(2, c)
    \/ Return(2)

SpecRW == Init /\ [][NextRW]_vars

\* ------------------------------------------------------ simple_chunk_text
\* A text is a sequence of runs [c, n]: n >= 1 times the character c, adjacent
\* runs of different characters.  "x" stands for a letter.
MaxRuns == 5                 \* runs of the texts given to simple_chunk_text
RunLens == {1, 50, 51}       \* their lengths, around MIN_CHUNK_LENGTH
ChunkSizes == {40, 110}      \* chunk_size: below and above two sentences of 51
ChunkChars == {"x", ".", " "}
Whitespace == {" ", "nl"}    \* \s: blank and newline
Terminators == {".", "!", "?"}

MIN_CHUNK_LENGTH == 50

Run(c, n) == [c |-> c, n |-> n]

\* "A. B. " followed by 500 times "x"
ExampleText == <<Run("A", 1), Run(".", 1), Run(" ", 1), Run("B", 1), Run(".", 1),
                 Run(" ", 1), Run("x", 500)>>

ExampleChunkSize == 400

\* len(text)
RECURSIVE TextLen(_)
TextLen(text) == IF text = <<>> THEN 0 ELSE Head(text).n + TextLen(Tail(text))

\* a + b
Concat(a, b) ==
    IF a = <<>> THEN b
    ELSE IF b = <<>> THEN a
    ELSE IF a[Len(a)].c = Head(b).c
         THEN SubSeq(a, 1, Len(a) - 1) \o <<Run(Head(b).c, a[Len(a)].n + Head(b).n)>>
                \o Tail(b)
         ELSE a \o b

\* text.strip()
RECURSIVE LStrip(_)
LStrip(text) ==
    IF text # <<>> /\ Head(text).c \in Whitespace THEN LStrip(Tail(text)) ELSE text

RECURSIVE RStrip(_)
RStrip(text) ==
    IF text # <<>> /\ text[Len(text)].c \in Whitespace
    THEN RStrip(SubSeq(text, 1, Len(text) - 1))
    ELSE text

Strip(text) == RStrip(LStrip(text))

\* re.split(r'(?<=[.!?])\s+', text): a whitespace run that follows a terminator
\* separates two pieces; any other run stays in its piece
RECURSIVE SplitFrom(_, _, _, _)
SplitFrom(text, i, piece, pieces) ==
    IF i > Len(text) THEN Append(pieces, piece)
    ELSE IF text[i].c \in Whitespace /\ i > 1 /\ text[i - 1].c \in Terminators
         THEN SplitFrom(text, i + 1, <<>>, Append(pieces, piece))
         ELSE SplitFrom(text, i + 1, Append(piece, text[i]), pieces)

SplitSentences(text) == SplitFrom(text, 1, <<>>, <<>>)

Chunk(current_chunk, chunk_num) == [text |-> Strip(current_chunk), chunk_number |-> chunk_num]

\* lines 81-105: the loop over the sentences and the final chunk; min_len is
\* MIN_CHUNK_LENGTH
RECURSIVE ChunkLoop(_, _, _, _, _, _, _)
ChunkLoop(sentences, i, current_chunk, chunk_num, chunks, chunk_size, min_len) ==
    IF i > Len(sentences)
    THEN IF Strip(current_chunk) # <<>> /\ TextLen(Strip(current_chunk)) > min_len
         THEN Append(chunks, Chunk(current_chunk, chunk_num))
         ELSE chunks
    ELSE IF Strip(sentences[i]) = <<>>
    THEN ChunkLoop(sentences, i + 1, current_chunk, chunk_num, chunks, chunk_size, min_len)
    ELSE IF /\ current_chunk # <<>>
            /\ TextLen(Concat(Concat(current_chunk, <<Run(" ", 1)>>), Strip(sentences[i])))
                  > chunk_size
    THEN IF TextLen(Strip(current_chunk)) > min_len
         THEN ChunkLoop(sentences, i + 1, Strip(sentences[i]), chunk_num + 1,
                        Append(chunks, Chunk(current_chunk, chunk_num)), chunk_size, min_len)
         ELSE ChunkLoop(sentences, i + 1, Strip(sentences[i]), chunk_num, chunks,
                        chunk_size, min_len)
    ELSE ChunkLoop(sentences, i + 1,
                   IF current_chunk # <<>>
                   THEN Concat(Concat(current_chunk, <<Run(" ", 1)>>), Strip(sentences[i]))
                   ELSE Strip(sentences[i]),
                   chunk_num, chunks, chunk_size, min_len)

\* mutant: the chunker cutting every sentence longer than chunk_size down to
\* its first run
Truncated(sentences, chunk_size) ==
    [i \in 1..Len(sentences) |->
        IF TextLen(sentences[i]) > chunk_size /\ Len(sentences[i]) > 1
        THEN SubSeq(sentences[i], 1, 1) ELSE sentences[i]]

simple_chunk_text_truncating(is_none, text, chunk_size) ==
    IF is_none \/ text = <<>> \/ Strip(text) = <<>> THEN <<>>
    ELSE ChunkLoop(Truncated(SplitSentences(Strip(text)), chunk_size), 1, <<>>, 1, <<>>,
                   chunk_size, MIN_CHUNK_LENGTH)

\* mutant: the chunker without its minimum length (every non-empty buffer is emitted)
simple_chunk_text_nomin(is_none, text, chunk_size) ==
    IF is_none \/ text = <<>> \/ Strip(text) = <<>> THEN <<>>
    ELSE ChunkLoop(SplitSentences(Strip(text)), 1, <<>>, 1, <<>>, chunk_size, 0 - 1)

\* mutant: the chunker that never closes a buffer on its size (the test of
\* line 86 against the length of the whole text)
simple_chunk_text_unbounded(is_none, text, chunk_size) ==
    IF is_none \/ text = <<>> \/ Strip(text) = <<>> THEN <<>>
    ELSE ChunkLoop(SplitSentences(Strip(text)), 1, <<>>, 1, <<>>, TextLen(text),
                   MIN_CHUNK_LENGTH)

\* simple_chunk_text(text, chunk_size); is_none: text is None
simple_chunk_text(is_none, text, chunk_size) ==
    IF is_none \/ text = <<>> \/ Strip(text) = <<>> THEN <<>>
    ELSE ChunkLoop(SplitSentences(Strip(text)), 1, <<>>, 1, <<>>, chunk_size,
                   MIN_CHUNK_LENGTH)

\* mutant: the function without "if not text or not text.strip(): return []":
\* None.strip() raises AttributeError
chunk_raises_unguarded(is_none, text, chunk_size) == is_none

\* whether simple_chunk_text raises: line 71 returns before a None text is
\* used, and no statement after it raises on a str
chunk_raises(is_none, text, chunk_size) == FALSE

\* whitespace-only texts of blanks and newlines
BlankTexts == {<<Run(" ", 1), Run("nl", 1)>>, <<Run("nl", 2), Run(" ", 1), Run("nl", 1)>>}

\* the arguments a text is composed for: the empty text with every chunk size;
\* and the arguments given as they are: None, the example, the whitespace-only
\* texts
ChunkerInputs ==
    {[is_none |-> FALSE, text |-> <<>>, chunk_size |-> cs] : cs \in ChunkSizes}
    \cup {[is_none |-> TRUE, text |-> <<>>, chunk_size |-> cs] : cs \in ChunkSizes}
    \cup {[is_none |-> FALSE, text |-> ExampleText, chunk_size |-> ExampleChunkSize]}
    \cup {[is_none |-> FALSE, text |-> t, chunk_size |-> ExampleChunkSize] :
             t \in BlankTexts}

\* the caller composes the text argument: one more run of n characters c
AppendRun(c, n) ==
    /\ ~chunker.called /\ ~chunker.is_none
    /\ chunker.chunk_size \in ChunkSizes
    /\ Len(chunker.text) < MaxRuns
    /\ \A last \in {Len(chunker.text)} \ {0} : chunker.text[last].c # c
    /\ chunker' = [chunker EXCEPT !.text = Append(@, Run(c, n))]
    /\ UNCHANGED <<index_vars, embed_vars, api_vars>>

\* a call of simple_chunk_text on the arguments composed so far
ChunkCall ==
    /\ ~chunker.called
    /\ chunker' = [chunker EXCEPT !.called = TRUE,
                      !.raised = chunk_raises(chunker.is_none, chunker.text,
                                              chunker.chunk_size),
                      !.chunks = simple_chunk_text(chunker.is_none, chunker.text,
                                                   chunker.chunk_size)]
    /\ UNCHANGED <<index_vars, embed_vars, api_vars>>

InitChunk ==
    /\ faiss_available = TRUE
    /\ IndexFresh
    /\ st_available = TRUE
    /\ hash_seed = 0
    /\ EmbedFresh
    /\ ApiFresh
    /\ \E inp \in ChunkerInputs :
          chunker = [is_none |-> inp.is_none, text |-> inp.text,
                     chunk_size |-> inp.chunk_size, called |-> FALSE, raised |-> FALSE,
                     chunks |-> <<>>]

\* SpecChunk: simple_chunk_text applied to every text of up to MaxRuns runs
NextChunk ==
    \/ \E c \in ChunkChars, n \in RunLens : AppendRun(c, n)
    \/ ChunkCall

SpecChunk == InitChunk /\ [][NextChunk]_vars

\* ---------------------------------------------------------- embeddings.py
MaxTexts == 2        \* texts passed to one embed_texts call
MaxSeed == 1         \* hash salts a process may start with: 0..MaxSeed

HASH_DIM == 384      \* line 61: for i in range(384)
ZERO_DIM == 384      \* line 74: [0.0] * 384
MINILM_DIM == 384    \* output width of all-MiniLM-L6-v2, the model of line 32

Seeds == 0..MaxSeed

TextLists == SeqsUpTo(Texts, MaxTexts)

Simple == [kind |-> "simple", id |-> 0]

\* the SentenceTransformer instance constructed by thread t
Instance(t) == [kind |-> "st", id |-> t]

\* hash(text): the str hash of a process whose salt is seed (any int, negative
\* ones included)
StrHash(seed, text) ==
    IF text = "a" THEN 97 * 1000003 + 7919 * seed
    ELSE 0 - (98 * 1000003 + 104729 * seed)

\* lines 60-62, in thousandths: float((hash_val + i) % 1000) / 1000.0
HashEmbedding(hash_val) == [i \in 1..HASH_DIM |-> (hash_val + (i - 1)) % 1000]

\* model.encode of one text: a fixed vector of the model's width per text
ModelEncode(text) ==
    [i \in 1..MINILM_DIM |-> IF text = "a" THEN i % 7 ELSE 1000 - (i % 5)]

ZeroVector == [i \in 1..ZERO_DIM |-> 0]

\* mutant: the encode fallback as one zero vector, whatever the number of texts
EmbedOutputOneZero(m, seed, texts, encode_fails) ==
    IF m.kind = "simple"
    THEN [mode |-> "hash",
          out |-> [i \in 1..Len(texts) |-> HashEmbedding(StrHash(seed, texts[i]))],
          logged |-> {"warning: Using simple hash-based embeddings as fallback"}]
    ELSE IF ~encode_fails
    THEN [mode |-> "real", out |-> [i \in 1..Len(texts) |-> ModelEncode(texts[i])],
          logged |-> {}]
    ELSE [mode |-> "zero", out |-> <<ZeroVector>>,
          logged |-> {"error: Error creating embeddings"}]

\* lines 52-74 of embed_texts with model m: what it returns and what it logs
EmbedOutput(m, seed, texts, encode_fails) ==
    IF m.kind = "simple"
    THEN [mode |-> "hash",
          out |-> [i \in 1..Len(texts) |-> HashEmbedding(StrHash(seed, texts[i]))],
          logged |-> {"warning: Using simple hash-based embeddings as fallback"}]
    ELSE IF ~encode_fails
    THEN [mode |-> "real", out |-> [i \in 1..Len(texts) |-> ModelEncode(texts[i])],
          logged |-> {}]
    ELSE [mode |-> "zero", out |-> [i \in 1..Len(texts) |-> ZeroVector],
          logged |-> {"error: Error creating embeddings"}]

\* embed_texts(texts) is called on thread t: line 50 enters get_model
EmbedTextsCall(t, texts) ==
    /\ epc[t] = "idle"
    /\ eloc' = [eloc EXCEPT ![t] = [IdleEmbed EXCEPT !.texts = texts]]
    /\ epc' = [epc EXCEPT ![t] = "get_model"]
    /\ UNCHANGED <<index_vars, chunker, api_vars, st_available, model, hash_seed, hash_seen>>

\* get_model, lines 24-28: if _model is None; without sentence_transformers
\* _model = "simple"
GetModelCheck(t) ==
    /\ epc[t] = "get_model"
    /\ IF model.kind # "None"
       THEN /\ epc' = [epc EXCEPT ![t] = "return_model"]
            /\ UNCHANGED <<model, eloc>>
       ELSE IF ~st_available
       THEN /\ model' = Simple
            /\ eloc' = [eloc EXCEPT ![t].logged = @ \cup
                  {"warning: sentence-transformers not available, using simple embeddings"}]
            /\ epc' = [epc EXCEPT ![t] = "return_model"]
       ELSE /\ epc' = [epc EXCEPT ![t] = "load"]
            /\ UNCHANGED <<model, eloc>>
    /\ UNCHANGED <<index_vars, chunker, api_vars, st_available, hash_seed, hash_seen>>

\* line 32, right-hand side: SentenceTransformer('all-MiniLM-L6-v2') is
\* constructed, or raises (lines 34-37: log the error, _model = "simple")
LoadModel(t) ==
    /\ epc[t] = "load"
    /\ \/ /\ eloc' = [eloc EXCEPT ![t].inst = Instance(t)]
          /\ epc' = [epc EXCEPT ![t] = "assign"]
          /\ UNCHANGED model
       \/ /\ model' = Simple
          /\ eloc' = [eloc EXCEPT ![t].logged = @ \cup
                {"error: Failed to load sentence transformer model"}]
          /\ epc' = [epc EXCEPT ![t] = "return_model"]
    /\ UNCHANGED <<index_vars, chunker, api_vars, st_available, hash_seed, hash_seen>>

\* lines 32-33: the assignment _model = <instance>, and the info log
AssignModel(t) ==
    /\ epc[t] = "assign"
    /\ model' = eloc[t].inst
    /\ eloc' = [eloc EXCEPT ![t].logged = @ \cup
          {"info: Loaded sentence transformer model"}]
    /\ epc' = [epc EXCEPT ![t] = "return_model"]
    /\ UNCHANGED <<index_vars, chunker, api_vars, st_available, hash_seed, hash_seen>>

\* lines 28, 38: return _model (the global as it is now) into model of line 50
ReturnModel(t) ==
    /\ epc[t] = "return_model"
    /\ eloc' = [eloc EXCEPT ![t].m = model]
    /\ epc' = [epc EXCEPT ![t] = "embed"]
    /\ UNCHANGED <<index_vars, chunker, api_vars, st_available, model, hash_seed, hash_seen>>

\* the embed_texts call of thread t has produced res (lines 52-74)
Embedded(t, res) ==
    /\ eloc' = [eloc EXCEPT ![t].mode = res.mode, ![t].out = res.out,
                            ![t].logged = @ \cup res.logged]
    /\ epc' = [epc EXCEPT ![t] = "done"]
    /\ hash_seen' = IF res.mode = "hash" /\ Len(res.out) = Len(eloc[t].texts)
                    THEN hash_seen \cup {[text |-> eloc[t].texts[i], vec |-> res.out[i]] :
                                            i \in 1..Len(res.out)}
                    ELSE hash_seen
    /\ UNCHANGED <<index_vars, chunker, api_vars, st_available, model, hash_seed>>

\* lines 52-74; model.encode may raise
Embed(t) ==
    /\ epc[t] = "embed"
    /\ \E encode_fails \in BOOLEAN :
          Embedded(t, EmbedOutput(eloc[t].m, hash_seed, eloc[t].texts, encode_fails))

\* the vectors have gone back to the caller
EmbedReturn(t) ==
    /\ epc[t] = "done"
    /\ epc' = [epc EXCEPT ![t] = "idle"]
    /\ eloc' = [eloc EXCEPT ![t] = IdleEmbed]
    /\ UNCHANGED <<index_vars, chunker, api_vars, st_available, model, hash_seed, hash_seen>>

\* the process ends and a new one imports embeddings: _model = None again, and
\* the interpreter draws a new hash salt
EmbedRestart ==
    /\ \A t \in Threads : epc[t] = "idle"
    /\ model # NoModel
    /\ model' = NoModel
    /\ \E seed \in Seeds : hash_seed' = seed
    /\ UNCHANGED <<index_vars, chunker, api_vars, st_available, epc, eloc, hash_seen>>

InitEmbed ==
    /\ faiss_available = TRUE
    /\ IndexFresh
    /\ chunker = NoChunkerCall
    /\ st_available \in BOOLEAN
    /\ hash_seed \in Seeds
    /\ EmbedFresh
    /\ ApiFresh

EmbedSteps(t) ==
    \/ GetModelCheck(t)
    \/ LoadModel(t)
    \/ AssignModel(t)
    \/ ReturnModel(t)
    \/ Embed(t)
    \/ EmbedReturn(t)

\* SpecEmbed: embed_texts called again and again, one call at a time, in one
\* process after another
NextEmbed ==
    \/ \E texts \in TextLists : EmbedTextsCall(1, texts)
    \/ EmbedSteps(1)
    \/ EmbedRestart

SpecEmbed == InitEmbed /\ [][NextEmbed]_vars

\* SpecEmbedConc: two worker threads of one process inside embed_texts at the
\* same time (nothing in embeddings.py or in its callers serializes them)
NextEmbedConc ==
    \/ \E t \in Threads, texts \in SeqsUpTo(Texts, 1) : EmbedTextsCall(t, texts)
    \/ \E t \in Threads : EmbedSteps(t)

SpecEmbedConc == InitEmbed /\ [][NextEmbedConc]_vars

\* ------------------------------- pdf_store, persona analysis, status
\* File names and document ids are strings as sequences of characters.
MaxUploads == 2              \* files uploaded to PDF_DIR
MaxRequested == 2            \* doc_ids of a persona-analyze request
MaxRanked == 2               \* ranked sections given to build_output_json

PdfExt == <<".", "p", "d", "f">>
JsonExt == <<".", "j", "s", "o", "n">>
Digits == <<"1", "2", "3", "4">>

\* generate_doc_id: the n-th uuid4 string handed out
generate_doc_id(n) == <<"d", Digits[n]>>

\* what an uploaded file holds: whether text can be extracted from it, and the
\* text ("" when it holds none)
FileContents ==
    {[readable |-> FALSE, text |-> ""]} \cup
    {[readable |-> TRUE, text |-> x] : x \in {""} \cup Texts}

\* an uploaded .json file: text that can be read
JsonContent == [readable |-> TRUE, text |-> "a"]

Names == {f.name : f \in pdf_dir}

FileNamed(name) == CHOOSE f \in pdf_dir : f.name = name

\* fn.endswith(ext)
EndsWith(fn, ext) ==
    Len(fn) >= Len(ext) /\ SubSeq(fn, Len(fn) - Len(ext) + 1, Len(fn)) = ext

\* list_pdfs(): fn[:-4] of every file name ending in .pdf or .json (the order
\* of os.listdir plays no part in what callers do with the list)
list_pdfs ==
    {SubSeq(fn, 1, Len(fn) - 4) :
        fn \in {n \in Names : EndsWith(n, PdfExt) \/ EndsWith(n, JsonExt)}}

\* get_pdf_path(doc_id): the path of doc_id.pdf, else of doc_id.json, else
\* None (the empty sequence)
get_pdf_path(doc_id) ==
    IF doc_id \o PdfExt \in Names THEN doc_id \o PdfExt
    ELSE IF doc_id \o JsonExt \in Names THEN doc_id \o JsonExt
    ELSE <<>>

get_file_type(doc_id) ==
    IF doc_id \o PdfExt \in Names THEN "pdf"
    ELSE IF doc_id \o JsonExt \in Names THEN "json"
    ELSE "None"

\* the response of upload_file, lines 319-325
Uploaded(doc_id) ==
    [NoResp EXCEPT !.op = "upload", !.doc_ids = <<doc_id>>,
                   !.fields = {"doc_id", "original_filename", "file_type",
                               "file_size_bytes", "message"}]

\* POST /files/upload of a .pdf: save_pdf writes PDF_DIR/<doc_id>.pdf
save_pdf(doc_id, content) ==
    /\ resp.code # 0
    /\ Cardinality(pdf_dir) < MaxUploads
    /\ pdf_dir' = {f \in pdf_dir : f.name # doc_id \o PdfExt}
                     \cup {[name |-> doc_id \o PdfExt, content |-> content]}
    /\ resp' = Uploaded(doc_id)
    /\ UNCHANGED <<index_vars, chunker, embed_vars>>

\* POST /files/upload of a .json: save_json writes PDF_DIR/<doc_id>.json
save_json(doc_id, content) ==
    /\ resp.code # 0
    /\ Cardinality(pdf_dir) < MaxUploads
    /\ pdf_dir' = {f \in pdf_dir : f.name # doc_id \o JsonExt}
                     \cup {[name |-> doc_id \o JsonExt, content |-> content]}
    /\ resp' = Uploaded(doc_id)
    /\ UNCHANGED <<index_vars, chunker, embed_vars>>

\* extract_text_from_pdfs(PDF_DIR, input_documents): the pages of the documents
\* text could be extracted from, in request order; a document that fails is
\* left out and the others are still extracted
Extractable(name) == name \in Names /\ FileNamed(name).content.readable

PagesOf(documents) ==
    [i \in 1..Len(documents) |->
        [document |-> documents[i], page_number |-> 1,
         text |-> FileNamed(documents[i]).content.text]]

extract_text_from_pdfs(input_documents) ==
    PagesOf(SelectSeq(input_documents, Extractable))

\* chunk_text_advanced(all_pages): the chunks of the pages that hold text,
\* each under the title of its section
HasText(page) == page.text # ""

ChunksOf(pages) ==
    [i \in 1..Len(pages) |->
        [document |-> pages[i].document, page_number |-> pages[i].page_number,
         title |-> "Heading", text |-> pages[i].text]]

chunk_text_advanced(all_pages) == ChunksOf(SelectSeq(all_pages, HasText))

\* the relevance of a chunk text to the persona and the job
Relevance(text) == IF text = "b" THEN 2 ELSE 1

\* the most relevant chunk, the earlier one among equals
Best(chunks) ==
    CHOOSE i \in 1..Len(chunks) : \A j \in 1..Len(chunks) :
        \/ Relevance(chunks[i].text) > Relevance(chunks[j].text)
        \/ Relevance(chunks[i].text) = Relevance(chunks[j].text) /\ i <= j

RECURSIVE RankOrder(_)
RankFrom(chunks, best) ==
    <<chunks[best]>>
        \o RankOrder(SubSeq(chunks, 1, best - 1) \o SubSeq(chunks, best + 1, Len(chunks)))

RankOrder(chunks) == IF chunks = <<>> THEN <<>> ELSE RankFrom(chunks, Best(chunks))

\* the ranked sections and the refined texts of the chunks in ranked order
RankedOutput(ordered) ==
    [ranked_sections |->
        [i \in 1..Len(ordered) |->
            [document |-> ordered[i].document,
             title |-> ordered[i].title,
             page_number |-> ordered[i].page_number,
             relevance_score |-> Relevance(ordered[i].text)]],
     refined_texts |->
        [i \in 1..Len(ordered) |->
            [document |-> ordered[i].document,
             refined_text |-> ordered[i].text,
             page_number |-> ordered[i].page_number,
             title |-> ordered[i].title,
             relevance_score |-> Relevance(ordered[i].text)]]]

\* rank_chunks(chunks, job_description, persona, job_to_be_done): the chunks
\* by descending relevance, and their refined texts in the same order
rank_chunks(chunks) == RankedOutput(RankOrder(chunks))

\* section.get("title", "Untitled Section"): a section dict may have no title
SectionTitle(section) ==
    IF "title" \in DOMAIN section THEN section.title ELSE "Untitled Section"

\* "subsection_analysis" of both builders
SubsectionAnalysis(refined_texts) ==
    [i \in 1..Len(refined_texts) |->
        [document |-> refined_texts[i].document,
         refined_text |-> refined_texts[i].refined_text,
         page_number |-> refined_texts[i].page_number]]

\* mutant: build_output_json numbering the sections from the index of enumerate
build_output_json_zero_based(input_documents, ranked_sections, refined_texts) ==
    [input_documents |-> input_documents,
     extracted_sections |->
        [i \in 1..Len(ranked_sections) |->
            [document |-> ranked_sections[i].document,
             section_title |-> SectionTitle(ranked_sections[i]),
             importance_rank |-> i - 1,
             page_number |-> ranked_sections[i].page_number]],
     subsection_analysis |-> SubsectionAnalysis(refined_texts)]

\* builder.build_output_json: enumerate counts from 0 (position i - 1 here) and
\* importance_rank is that index plus one; the metadata strings are left out
build_output_json(input_documents, ranked_sections, refined_texts) ==
    [input_documents |-> input_documents,
     extracted_sections |->
        [i \in 1..Len(ranked_sections) |->
            [document |-> ranked_sections[i].document,
             section_title |-> SectionTitle(ranked_sections[i]),
             importance_rank |-> (i - 1) + 1,
             page_number |-> ranked_sections[i].page_number]],
     subsection_analysis |-> SubsectionAnalysis(refined_texts)]

\* persona_analyze_docs, lines 210-234: the same dict, built in place
PersonaResult(input_documents, ranked_sections, refined_texts) ==
    [input_documents |-> input_documents,
     extracted_sections |->
        [i \in 1..Len(ranked_sections) |->
            [document |-> ranked_sections[i].document,
             section_title |-> SectionTitle(ranked_sections[i]),
             importance_rank |-> (i - 1) + 1,
             page_number |-> ranked_sections[i].page_number]],
     subsection_analysis |-> SubsectionAnalysis(refined_texts)]

\* lines 166-177: doc_id.pdf or doc_id.json for every requested document
InputDocuments(doc_ids) ==
    [i \in 1..Len(doc_ids) |->
        doc_ids[i] \o (IF get_file_type(doc_ids[i]) = "pdf" THEN PdfExt ELSE JsonExt)]

\* an error response of persona_analyze_docs
PersonaError(call, code, stage) ==
    [call EXCEPT !.code = code, !.stage = stage, !.fields = {"detail"}]

\* lines 197-234: ranking and the result dict; the handler goes on (code 0)
PersonaRanked(call, ranked) ==
    [call EXCEPT !.code = 0, !.stage = "index",
                 !.ranked_sections = ranked.ranked_sections,
                 !.refined_texts = ranked.refined_texts,
                 !.result = PersonaResult(call.input_documents, ranked.ranked_sections,
                                          ranked.refined_texts)]

\* lines 188-195: chunking; an HTTPException raised inside the try block is
\* caught by "except Exception" and answered as 500
PersonaChunked(call, all_chunks) ==
    IF all_chunks = <<>> THEN PersonaError(call, 500, "chunk")
    ELSE PersonaRanked([call EXCEPT !.all_chunks = all_chunks], rank_chunks(all_chunks))

\* lines 179-186: extraction
PersonaExtracted(call, all_pages) ==
    IF all_pages = <<>> THEN PersonaError(call, 500, "extract")
    ELSE PersonaChunked([call EXCEPT !.all_pages = all_pages],
                        chunk_text_advanced(all_pages))

\* lines 164-177: the file names of the requested documents
PersonaTry(call, input_documents) ==
    IF \E i \in 1..Len(call.doc_ids) : get_file_type(call.doc_ids[i]) = "None"
    THEN PersonaError(call, 500, "prepare")
    ELSE PersonaExtracted([call EXCEPT !.input_documents = input_documents],
                          extract_text_from_pdfs(input_documents))

\* lines 155-162: 404 when a requested document is not among the listed ones
PersonaValidated(call, available_docs) ==
    IF \E i \in 1..Len(call.doc_ids) : call.doc_ids[i] \notin available_docs
    THEN PersonaError(call, 404, "validate")
    ELSE PersonaTry(call, InputDocuments(call.doc_ids))

\* POST /persona-analyze, lines 153-234: validation, extraction, chunking,
\* ranking and the result dict
persona_analyze_docs(t, doc_ids) ==
    /\ pc[t] = "idle"
    /\ resp.code # 0
    /\ next_id + Len(doc_ids) - 1 <= MaxRequested
    /\ resp' = PersonaValidated([NoResp EXCEPT !.op = "persona", !.doc_ids = doc_ids,
                                               !.pre_dir = pdf_dir],
                                list_pdfs)
    /\ UNCHANGED <<index_vars, chunker, embed_vars, pdf_dir>>

\* lines 236-254: the refined texts go to add_chunks_to_index
PersonaIndex(t) ==
    /\ resp.op = "persona" /\ resp.code = 0
    /\ persona_index(t, [i \in 1..Len(resp.refined_texts) |->
                            resp.refined_texts[i].refined_text])

\* lines 256-271: the response once add_chunks_to_index has returned, or 500
\* when it raised
PersonaRespond(t) ==
    /\ resp.op = "persona" /\ resp.code = 0
    /\ loc[t].op = "add" /\ pc[t] \in {"done", "failed"}
    /\ resp' = IF pc[t] = "done"
               THEN [resp EXCEPT !.code = 200,
                        !.fields = {"persona_analysis", "relevant_sections",
                                    "chunk_ids", "processing_time"},
                        !.relevant_sections = Len(resp.ranked_sections),
                        !.chunk_ids = loc[t].chunk_ids]
               ELSE [resp EXCEPT !.code = 500, !.fields = {"detail"},
                        !.result = NoAnalysis]
    /\ pc' = [pc EXCEPT ![t] = "idle"]
    /\ loc' = [loc EXCEPT ![t] = IdleLoc]
    /\ UNCHANGED <<faiss_available, index, ids, mapping, vectors_file, ids_file, db_lock,
                   files, next_doc, next_id, returned, deleted, boot,
                   chunker, embed_vars, pdf_dir>>

\* GET /status: ONLINE_MODE, LLM_PROVIDER, GEMINI_API_KEY and AZURE_TTS_KEY are
\* read from the environment (here: whether each is set).  The handler reads
\* nothing of the state, so it is called on the empty PDF_DIR only
status(ONLINE_MODE, LLM_PROVIDER, GEMINI_API_KEY, AZURE_TTS_KEY) ==
    /\ resp.code # 0
    /\ pdf_dir = {}
    /\ resp' = [NoResp EXCEPT !.op = "status",
                   !.fields = {"mode", "services"},
                   !.status = [mode |-> IF ONLINE_MODE THEN "online" ELSE "offline",
                               services |->
                                  [pdf_extractor |-> TRUE,
                                   search_index |-> TRUE,
                                   insights |-> IF ONLINE_MODE
                                                THEN LLM_PROVIDER /\ GEMINI_API_KEY
                                                ELSE TRUE,
                                   tts |-> IF ONLINE_MODE THEN AZURE_TTS_KEY ELSE TRUE]]]
    /\ UNCHANGED <<index_vars, chunker, embed_vars, pdf_dir>>

\* the ranked sections build_output_json is called with: with and without a
\* title, on either page
SectionInputs ==
    {[document |-> "doc.pdf", page_number |-> p] : p \in 1..2} \cup
    {[document |-> "doc.pdf", title |-> "Intro", page_number |-> p] : p \in 1..2}

\* a call of build_output_json on a ranked list and its refined texts (a pure
\* function of its arguments, called on the empty PDF_DIR only)
BuildOutput(ranked_sections) ==
    /\ resp.code # 0
    /\ pdf_dir = {}
    /\ resp' = [NoResp EXCEPT !.op = "build",
                   !.ranked_sections = ranked_sections,
                   !.refined_texts =
                      [i \in 1..Len(ranked_sections) |->
                          [document |-> ranked_sections[i].document,
                           refined_text |-> "a",
                           page_number |-> ranked_sections[i].page_number]],
                   !.result = build_output_json(<<"doc.pdf">>, ranked_sections,
                      [i \in 1..Len(ranked_sections) |->
                          [document |-> ranked_sections[i].document,
                           refined_text |-> "a",
                           page_number |-> ranked_sections[i].page_number]])]
    /\ UNCHANGED <<index_vars, chunker, embed_vars, pdf_dir>>

\* the doc ids a request names: those handed out (uploaded or not), and the
\* name list_pdfs makes of the first document when it is a .json file
RequestIds ==
    {generate_doc_id(n) : n \in 1..MaxUploads} \cup {generate_doc_id(1) \o <<".">>}

\* the doc_ids lists of the requests: up to MaxRequested different ids
Requests ==
    {doc_ids \in SeqsUpTo(RequestIds, MaxRequested) :
        \A i, j \in 1..Len(doc_ids) : doc_ids[i] = doc_ids[j] => i = j}

\* SpecPersona: one request at a time: uploads, persona analysis with its
\* insert into the index, status, and calls of build_output_json
NextPersona ==
    \/ \E content \in FileContents :
           save_pdf(generate_doc_id(Cardinality(pdf_dir) + 1), content)
    \/ save_json(generate_doc_id(Cardinality(pdf_dir) + 1), JsonContent)
    \/ \E doc_ids \in Requests : persona_analyze_docs(1, doc_ids)
    \/ PersonaIndex(1)
    \/ AddBody(1)
    \/ PersonaRespond(1)
    \/ \E online, provider, key, azure \in BOOLEAN : status(online, provider, key, azure)
    \/ \E ranked_sections \in SeqsUpTo(SectionInputs, MaxRanked) : BuildOutput(ranked_sections)

SpecPersona == Init /\ [][NextPersona]_vars

\* ================================================================ claims
MappedIds == {r.chunk_id : r \in mapping}

NoAddInFlight == \A t \in Threads : ~InAdd(t)

Finished(t, op) == pc[t] \in {"done", "failed"} /\ loc[t].op = op

\* C1 (as claimed): whenever no insert is in flight, the chunk ids of the id list
\* (_ids, and ids.json once written) are exactly the chunk ids of the mapping rows.
C1_ReferentialConsistency ==
    NoAddInFlight =>
        /\ Range(ids) = MappedIds
        /\ ids_file.exists => Range(ids_file.ids) = MappedIds

\* C2 (as claimed): when the process dies inside add_chunks_to_index, entered in a
\* consistent state, the state _load_index rebuilds has as many vectors as ids
\* and its ids are exactly the mapped chunk ids.
C2_CrashConsistency ==
    [][(Crash /\ \A t \in Threads : InAdd(t) => Consistent(loc[t].pre))
          => Consistent(Snapshot)']_vars

\* the search with the exact embedding of returned chunk r and k=1 yields one
\* hit at distance 0: r's id, or the id of a row holding an identical vector
HitAtZero(r, got) ==
    /\ ~got.err
    /\ Len(got.res) = 1
    /\ got.res[1][2] = 0
    /\ \/ got.res[1][1] = r.chunk_id
       \/ \E p1, p2 \in 1..ntotal(index) :
             /\ p1 <= Len(ids) /\ p2 <= Len(ids)
             /\ ids[p1] = got.res[1][1] /\ ids[p2] = r.chunk_id
             /\ index.vecs[p1] = index.vecs[p2]

RoundTripHit(r) == HitAtZero(r, search_index(r.emb, 1))

\* C3 (as claimed): after a restart, every chunk a completed insert returned is
\* found by a k=1 search with its exact embedding, at distance 0.
C3_RoundTrip ==
    (boot = "restart" /\ NoAddInFlight) =>
        \A r \in returned : r.emb # <<>> => RoundTripHit(r)

\* C3 (amended): with FAISS available, after a restart every chunk a completed
\* insert returned is found by a k=1 search with its exact embedding, at distance 0
\* (its own id, or the id of a row holding an identical vector).
C3_RoundTripWithFaiss ==
    (faiss_available /\ boot = "restart" /\ NoAddInFlight) =>
        \A r \in returned : r.emb # <<>> => RoundTripHit(r)

\* C3 witness: after a restart of an index with two rows or more, a k=1 search
\* with the embedding of a returned chunk has answered that chunk at distance 0
C3_Witness ==
    /\ faiss_available /\ boot = "restart" /\ Len(ids) >= 2
    /\ pc[1] = "done" /\ loc[1].op = "search_index" /\ loc[1].k = 1
    /\ \E r \in returned :
          r.emb = loc[1].query /\ loc[1].result.res = <<(<<r.chunk_id, 0>>)>>

\* C4 (as claimed): an insert that fails on a dimension mismatch, on an index
\* whose dimensionality was established before the call, leaves the index, _ids,
\* the mapping table, vectors.npy and ids.json as they were before the call.
C4_MismatchNoSideEffects ==
    \A t \in Threads :
        (/\ pc[t] = "failed" /\ loc[t].op = "add"
         /\ loc[t].error = "AssertionError"
         /\ ~loc[t].pre.index.none)
        => Snapshot = loc[t].pre

\* every chunk the call of thread t returned is in ids.json, and the row of
\* vectors.npy at its position is its embedding
Persisted(t) ==
    \A j \in 1..Len(loc[t].chunk_ids) :
        \E p \in 1..Len(ids_file.ids) :
            /\ ids_file.ids[p] = loc[t].chunk_ids[j]
            /\ p <= Len(vectors_file.vecs)
            /\ vectors_file.vecs[p] = AsFloat32Row(loc[t].embs[j])

\* C5 (as claimed): when the inserts of both threads have returned, ids.json and
\* vectors.npy hold every chunk of both batches, aligned row for row.
C5_NoLostUpdate ==
    (faiss_available /\ \A t \in Threads : pc[t] = "done" /\ loc[t].op = "add") =>
        /\ Len(vectors_file.vecs) = Len(ids_file.ids)
        /\ \A t \in Threads : Persisted(t)

\* C6: without FAISS no insert fails, a completed insert has returned one id per
\* chunk and get_chunk_by_id gives each id's text, and every search (whatever
\* the query and k) returns the empty list without raising.
C6_DegradedMode ==
    ~faiss_available =>
        /\ \A t \in Threads : loc[t].op = "add" => pc[t] # "failed"
        /\ \A t \in Threads : (pc[t] = "done" /\ loc[t].op = "add") =>
              /\ Len(loc[t].chunk_ids) = Len(loc[t].chunks)
              /\ \A j \in 1..Len(loc[t].chunks) :
                    get_chunk_by_id(loc[t].chunk_ids[j]) = loc[t].chunks[j]
        /\ \A r \in returned : get_chunk_by_id(r.chunk_id) = r.text
        /\ \A q \in AllEmbVecs, k \in KRange : search_index(q, k) = NoResult
        /\ \A t \in Threads : loc[t].op \in {"search_index", "search"} =>
              pc[t] = "done" /\ loc[t].result = NoResult

\* C6 witness: without FAISS, a batch of MaxBatch chunks has been inserted and
\* returned, and a search with k >= 1 has been answered
C6_Witness ==
    /\ ~faiss_available
    /\ Cardinality(returned) >= MaxBatch
    /\ pc[1] = "done" /\ loc[1].op = "search_index" /\ loc[1].k >= 1

\* C7 (as claimed): for a deleted document no mapping row is left, and no search
\* returns a chunk of it.
C7_CascadingDelete ==
    \A d \in deleted :
        /\ \A r \in mapping : r.doc_id # d
        /\ \A q \in AllEmbVecs, k \in 1..MaxK :
              \A j \in 1..Len(search_index(q, k).res) :
                  \A r \in mapping :
                      r.chunk_id = search_index(q, k).res[j][1] => r.doc_id # d

\* the list `got` of a search for k hits is ascending by distance, no longer
\* than k, no longer than the number of stored vectors, and empty on an index
\* without vectors
ShapeOk(k, got) ==
    ~got.err =>
        /\ \A j \in 1..(Len(got.res) - 1) : got.res[j][2] <= got.res[j + 1][2]
        /\ Len(got.res) <= k
        /\ Len(got.res) <= ntotal(index)
        /\ ntotal(index) = 0 => got.res = <<>>

\* C8: every list a search_index call with k >= 1 returns is ascending by
\* distance, no longer than k, no longer than the number of stored vectors, and
\* empty when the index holds no vector.
C8_ResultShape ==
    \A t \in Threads :
        (pc[t] = "done" /\ loc[t].op = "search_index" /\ loc[t].k >= 1)
        => ShapeOk(loc[t].k, loc[t].result)

\* C8 witness: a search with k = 2 on an index of three vectors has returned
\* two hits at different distances
C8_Witness ==
    /\ pc[1] = "done" /\ loc[1].op = "search_index" /\ loc[1].k = 2
    /\ ntotal(index) = 3
    /\ Len(loc[1].result.res) = 2
    /\ loc[1].result.res[1][2] < loc[1].result.res[2][2]

\* C9 (as claimed): a search_index call or /search request with k <= 0 ends in
\* an error, in every index state.
C9_NonPositiveKRejected ==
    \A t \in Threads :
        ((Finished(t, "search_index") \/ Finished(t, "search")) /\ loc[t].k <= 0)
        => pc[t] = "failed"

\* C10: get_chunk_by_id gives "" for every chunk id without a mapping row, and
\* for every chunk id a completed insert returned the text inserted for it.
C10_GetChunkById ==
    /\ \A c \in 0..MaxIds : c \notin MappedIds => get_chunk_by_id(c) = ""
    /\ \A r \in returned : get_chunk_by_id(r.chunk_id) = r.text
    /\ \A t \in Threads : (pc[t] = "done" /\ loc[t].op = "get_chunk_by_id") =>
          /\ loc[t].cid \notin MappedIds => loc[t].text = ""
          /\ \A r \in returned : r.chunk_id = loc[t].cid => loc[t].text = r.text

\* C10 witness: with two rows of different text in the table, get_chunk_by_id
\* has answered the text of a returned chunk id
C10_Witness ==
    /\ pc[1] = "done" /\ loc[1].op = "get_chunk_by_id"
    /\ \E r1, r2 \in mapping : r1.text # r2.text
    /\ \E r \in returned : r.chunk_id = loc[1].cid /\ loc[1].text = r.text

\* the chunk a completed insert returned first (uuid4 values are handed out in
\* call order)
FirstReturned == CHOOSE r \in returned : \A r2 \in returned : r.chunk_id <= r2.chunk_id

\* C11: with FAISS, once an insert has returned chunks the index exists and its
\* dimension is the embedding dimension of the first chunk so returned, and no
\* step of a running process (any step but the restart) changes the dimension
\* of an index that exists, whether the call succeeds, fails or is empty.
C11_DimensionFixed ==
    /\ []((faiss_available /\ returned # {}) =>
             (~index.none /\ index.d = Len(FirstReturned.emb)))
    /\ [][(~index.none => (~index'.none /\ index'.d = index.d)) \/ Restart]_vars

\* C11 witness: chunks of dimension 1 were returned, and a later call, entered
\* with that index, has failed on a mismatching embedding and left dimension 1
C11_Witness ==
    /\ returned # {} /\ Len(FirstReturned.emb) = 1
    /\ pc[1] = "failed" /\ loc[1].op = "add" /\ loc[1].error = "AssertionError"
    /\ ~loc[1].pre.index.none /\ loc[1].pre.index.d = 1
    /\ index.d = 1

\* the in-memory index ix with id list idl answers every search as the current one
SameAnswers(ix, idl) ==
    \A q \in AllEmbVecs, k \in 1..MaxK :
        search_index_in(ix, idl, q, k) = search_index(q, k)

\* C12: a shutdown right after an insert has returned, followed by _load_index,
\* rebuilds the same id list and the same vectors in the same order, and every
\* search (query, k) is answered as before the shutdown.
C12_ReloadEquivalence ==
    [][(pc[1] = "done" /\ loc[1].op = "add" /\ Restart)
          => (/\ ids' = ids
              /\ index'.none = index.none
              /\ index'.d = index.d
              /\ index'.vecs = index.vecs
              /\ SameAnswers(index', ids'))]_vars

\* C12 witness: the process was restarted with two vectors or more on disk, the
\* reloaded index holds them with their ids, and a search has found two of them
C12_Witness ==
    /\ boot = "restart" /\ ntotal(index) >= 2
    /\ index.vecs = vectors_file.vecs /\ ids = ids_file.ids
    /\ pc[1] = "done" /\ loc[1].op = "search_index" /\ Len(loc[1].result.res) = 2

\* the chunks inserts had returned when the call of thread t began (an insert
\* writes ids.json in the step it returns in)
ReturnedBefore(t) ==
    {r \in returned : r.chunk_id \in Range(loc[t].pre.ids_file.ids)}

\* C13 (as claimed): with FAISS, a search_index call (k >= 1, query of the
\* index's dimension) begun after inserts have returned does not fail, and with
\* k covering the whole index its result holds every chunk returned before; a
\* get_chunk_by_id call on an id returned before yields its text.
C13_ReadAfterWrite ==
    \A t \in Threads :
        /\ (/\ faiss_available /\ Finished(t, "search_index") /\ loc[t].k >= 1
            /\ ReturnedBefore(t) # {}
            /\ Len(loc[t].query) = loc[t].pre.index.d)
           => /\ pc[t] = "done"
              /\ loc[t].k >= ntotal(loc[t].pre.index) =>
                    \A r \in ReturnedBefore(t) :
                        \E j \in 1..Len(loc[t].result.res) :
                            loc[t].result.res[j][1] = r.chunk_id
        /\ (faiss_available /\ Finished(t, "get_chunk_by_id"))
           => \A r \in ReturnedBefore(t) :
                 r.chunk_id = loc[t].cid => loc[t].text = r.text

\* C14: every chunk simple_chunk_text emits has a trimmed text of at least
\* MIN_CHUNK_LENGTH characters, the first chunk is numbered 1 and the numbers
\* increase strictly in emission order.
C14_ChunkMinAndNumbering ==
    chunker.called =>
        /\ \A j \in 1..Len(chunker.chunks) :
              TextLen(Strip(chunker.chunks[j].text)) >= MIN_CHUNK_LENGTH
        /\ Len(chunker.chunks) >= 1 => chunker.chunks[1].chunk_number = 1
        /\ \A j \in 1..(Len(chunker.chunks) - 1) :
              chunker.chunks[j].chunk_number < chunker.chunks[j + 1].chunk_number

\* C14 witness: a text with a short sentence between two long ones has been
\* chunked into two chunks, the short buffer dropped
C14_Witness ==
    /\ chunker.called /\ Len(chunker.chunks) = 2
    /\ chunker.chunks[1].chunk_number = 1 /\ chunker.chunks[2].chunk_number = 2
    /\ TextLen(chunker.chunks[1].text) + TextLen(chunker.chunks[2].text) + 1
          < TextLen(Strip(chunker.text))

\* the sentence segments of the text given to simple_chunk_text
Segments == IF chunker.is_none THEN <<>> ELSE SplitSentences(Strip(chunker.text))

\* segment number i is a chunk of its own in the output
EmittedWhole(i) ==
    \E j \in 1..Len(chunker.chunks) : chunker.chunks[j].text = Strip(Segments[i])

\* "A. B. " and 500 "x" with chunk_size 400 give one chunk: the 500 "x", numbered 1
ExampleHolds ==
    (chunker.text = ExampleText /\ chunker.chunk_size = ExampleChunkSize) =>
        chunker.chunks = <<[text |-> <<Run("x", 500)>>, chunk_number |-> 1]>>

Expected(mode, text) ==
    IF mode = "hash" THEN HashEmbedding(StrHash(hash_seed, text))
    ELSE IF mode = "real" THEN ModelEncode(text)
    ELSE ZeroVector

\* C17: whatever the mode (model, hash fallback, encode failure), embed_texts
\* returns one vector per text, the i-th for the i-th text, each of 384 numbers.
C17_EmbedShape ==
    \A t \in Threads :
        epc[t] = "done" =>
            /\ Len(eloc[t].out) = Len(eloc[t].texts)
            /\ \A i \in 1..Len(eloc[t].out) : Len(eloc[t].out[i]) = 384
            /\ \A i \in 1..Len(eloc[t].out) :
                  i <= Len(eloc[t].texts) =>
                      eloc[t].out[i] = Expected(eloc[t].mode, eloc[t].texts[i])

\* C17 witness: two different texts have been embedded after model.encode
\* failed, in a process started after one that used the hash fallback
C17_Witness ==
    /\ epc[1] = "done" /\ Len(eloc[1].texts) = 2 /\ eloc[1].texts[1] # eloc[1].texts[2]
    /\ eloc[1].mode = "zero" /\ Len(eloc[1].out) = 2
    /\ \E r \in hash_seen : Len(r.vec) = 384

\* the call of thread t met a failure of the primary model: at load (this call
\* ran the except branch of get_model) or at encode
PrimaryFailed(t) ==
    \/ "error: Failed to load sentence transformer model" \in eloc[t].logged
    \/ eloc[t].mode = "zero"

\* C18 (as claimed): an embed_texts call that met a failure of the primary model
\* returns the hash-derived vector of every text, and has logged the fallback.
C18_FailureFallback ==
    \A t \in Threads :
        (epc[t] = "done" /\ PrimaryFailed(t)) =>
            /\ Len(eloc[t].out) = Len(eloc[t].texts)
            /\ \A i \in 1..Len(eloc[t].out) :
                  eloc[t].out[i] = HashEmbedding(StrHash(hash_seed, eloc[t].texts[i]))
            /\ eloc[t].logged # {}

\* C19 (as claimed): in hash-fallback mode equal texts get equal vectors, in
\* every call of every process run.
C19_HashDeterministic ==
    \A r1, r2 \in hash_seen : r1.text = r2.text => r1.vec = r2.vec

\* C20 (as claimed): once _model is not None, no step of the process gives it
\* another value.
C20_ModelInitialisedOnce ==
    [][model # NoModel => model' = model]_vars

\* C25 (as claimed): whenever no add_chunks_to_index call is in progress (and
\* the process has not died in one), the index holds as many vectors as _ids
\* has ids, ids.json equals _ids, vectors.npy has as many rows, and the row at
\* the position of every returned chunk id is the embedding inserted for it,
\* ids standing in insertion order.
C25_RowAlignment ==
    NoAddInFlight =>
        /\ ntotal(index) = Len(ids)
        /\ ids_file.ids = ids
        /\ Len(vectors_file.vecs) = Len(ids)
        /\ \A p \in 1..Len(ids) : \A r \in returned :
              (r.chunk_id = ids[p] /\ p <= ntotal(index))
              => index.vecs[p] = AsFloat32Row(r.emb)
        /\ \A p1, p2 \in 1..Len(ids) : p1 < p2 => ids[p1] < ids[p2]

\* C29 (as claimed): an add_chunks_to_index call given an embeddings list
\* shorter than its chunks list fails, and leaves the in-memory index, _ids, the
\* mapping table, vectors.npy and ids.json as they were when it began; no id of
\* _ids is left without a committed mapping row by it.
C29_TooFewEmbeddingsNoEffect ==
    \A t \in Threads :
        (/\ faiss_available /\ Finished(t, "add")
         /\ Len(loc[t].embs) < Len(loc[t].chunks))
        => /\ pc[t] = "failed"
           /\ Snapshot = loc[t].pre
           /\ Range(ids) \ Range(loc[t].pre.ids) \subseteq MappedIds

\* C26 (as claimed): a search_index call (k >= 1) answered while an
\* add_chunks_to_index call of another thread is running does not raise, and
\* every chunk id it returns stands in _ids at a position the index has a
\* vector for.
C26_ConcurrentReadSafe ==
    \A t, w \in Threads :
        (/\ t # w /\ InAdd(w)
         /\ Finished(t, "search_index") /\ loc[t].k >= 1
         /\ loc[t].pre.ids = ids /\ loc[t].pre.index = index)
        => /\ pc[t] = "done"
           /\ \A j \in 1..Len(loc[t].result.res) :
                 \E p \in 1..Len(ids) :
                     p <= ntotal(index) /\ ids[p] = loc[t].result.res[j][1]

\* the chunk text was accumulated from two sentence segments or more: it holds
\* a terminator followed by whitespace, where the sentences were joined
MultiSegment(text) == Len(SplitSentences(text)) >= 2

\* C27: every chunk simple_chunk_text emits that was accumulated from two
\* sentence segments or more is at most chunk_size characters long; a chunk
\* longer than chunk_size consists of a single segment of the text.
C27_GreedySizeBound ==
    chunker.called =>
        \A j \in 1..Len(chunker.chunks) :
            /\ MultiSegment(chunker.chunks[j].text)
                  => TextLen(chunker.chunks[j].text) <= chunker.chunk_size
            /\ TextLen(chunker.chunks[j].text) > chunker.chunk_size
                  => \E i \in 1..Len(Segments) :
                        chunker.chunks[j].text = Strip(Segments[i])

\* C27 witness: a text of three segments was chunked into a chunk of two
\* segments, which a third segment would have pushed over chunk_size, and a
\* second chunk
C27_Witness ==
    /\ chunker.called /\ Len(chunker.chunks) = 2
    /\ Len(Segments) = 3
    /\ MultiSegment(chunker.chunks[1].text)
    /\ TextLen(chunker.chunks[1].text) > 100
    /\ TextLen(chunker.chunks[1].text) <= chunker.chunk_size

\* the buffers simple_chunk_text closes on the text given, and its final
\* buffer, trimmed, in order (what the loop emits without a minimum length)
Buffers ==
    IF chunker.is_none \/ Strip(chunker.text) = <<>> THEN <<>>
    ELSE ChunkLoop(Segments, 1, <<>>, 1, <<>>, chunker.chunk_size, 0 - 1)

\* C28 (as claimed): every closed or final buffer whose trimmed length is
\* MIN_CHUNK_LENGTH (50) or more is emitted as a chunk; only buffers strictly
\* shorter than 50 are discarded.
C28_MinimumBoundary ==
    chunker.called =>
        \A b \in 1..Len(Buffers) :
            TextLen(Buffers[b].text) >= MIN_CHUNK_LENGTH
            => \E j \in 1..Len(chunker.chunks) : chunker.chunks[j].text = Buffers[b].text

\* C21 (as claimed): a persona-analyze request whose documents passed the
\* validation and for which extraction or chunking gave no chunk is answered
\* with success, an empty extracted_sections and an empty subsection_analysis.
C21_EmptyPoolNotAnError ==
    (/\ resp.op = "persona" /\ resp.code # 0
     /\ resp.stage \in {"extract", "chunk", "index"}
     /\ resp.all_chunks = <<>>)
    => /\ resp.code = 200
       /\ resp.result.extracted_sections = <<>>
       /\ resp.result.subsection_analysis = <<>>

\* document doc_id has a file of a supported type that text and a chunk can be
\* made of
GoodDoc(doc_id) ==
    /\ get_file_type(doc_id) # "None"
    /\ Extractable(get_pdf_path(doc_id))
    /\ FileNamed(get_pdf_path(doc_id)).content.text # ""

\* the response reports a section of document doc_id
Ranked(doc_id) ==
    \E j \in 1..Len(resp.result.extracted_sections) :
        resp.result.extracted_sections[j].document = get_pdf_path(doc_id)

\* C22 (as claimed): a persona-analyze request naming several documents, one of
\* which fails (missing, of no supported type, or not extractable) while
\* another is good, is answered with success, the good documents are ranked in
\* the result, and the response reports the failed documents in a field of
\* their own.
C22_PartialFailureIsolation ==
    (/\ resp.op = "persona" /\ resp.code # 0 /\ resp.pre_dir = pdf_dir
     /\ Len(resp.doc_ids) >= 2
     /\ \E i \in 1..Len(resp.doc_ids) : GoodDoc(resp.doc_ids[i])
     /\ \E i \in 1..Len(resp.doc_ids) : ~GoodDoc(resp.doc_ids[i]))
    => /\ resp.code = 200
       /\ \A i \in 1..Len(resp.doc_ids) : GoodDoc(resp.doc_ids[i]) => Ranked(resp.doc_ids[i])
       /\ resp.fields \ {"persona_analysis", "relevant_sections", "chunk_ids",
                         "processing_time"} # {}

\* the capability flags GET /status is known to report
ServiceFlags == {"pdf_extractor", "search_index", "insights", "tts"}

\* C23 (as claimed): GET /status is answered without an error, its search
\* capability flag is true exactly when FAISS is available, and a further
\* flag tells whether embeddings come from the sentence-transformers model or
\* from the hash fallback.
C23_DegradedModeObservable ==
    resp.op = "status" =>
        /\ resp.code = 200
        /\ resp.status.services.search_index = faiss_available
        /\ \E flag \in DOMAIN resp.status.services \ ServiceFlags :
              resp.status.services[flag] = st_available

\* the response carries a result dict: a call of build_output_json, or a
\* persona analysis past its line 234 that did not fail
HasResult ==
    \/ resp.op = "build"
    \/ resp.op = "persona" /\ resp.code \in {0, 200}

\* C24: the extracted_sections of build_output_json and of persona_analyze_docs
\* have one entry per ranked section, in the order of the ranked list, and
\* entry i (counted from 1) carries importance_rank i: the ranks are 1..n.
C24_ImportanceRanks ==
    HasResult =>
        /\ Len(resp.result.extracted_sections) = Len(resp.ranked_sections)
        /\ \A i \in 1..Len(resp.ranked_sections) :
              /\ resp.result.extracted_sections[i].importance_rank = i
              /\ resp.result.extracted_sections[i].document
                    = resp.ranked_sections[i].document
              /\ resp.result.extracted_sections[i].page_number
                    = resp.ranked_sections[i].page_number
              /\ resp.result.extracted_sections[i].section_title
                    = SectionTitle(resp.ranked_sections[i])
        /\ {resp.result.extracted_sections[i].importance_rank :
               i \in 1..Len(resp.result.extracted_sections)}
              = 1..Len(resp.ranked_sections)

\* C24 witness: a persona analysis of two documents was answered with two
\* sections, the second document of the request ranked first, ranks 1 and 2
C24_Witness ==
    /\ resp.op = "persona" /\ resp.code = 200 /\ Len(resp.doc_ids) = 2
    /\ Len(resp.ranked_sections) = 2
    /\ resp.ranked_sections[1].document = resp.input_documents[2]
    /\ resp.ranked_sections[2].document = resp.input_documents[1]
    /\ resp.result.extracted_sections[1].importance_rank = 1
    /\ resp.result.extracted_sections[2].importance_rank = 2
    /\ resp.result.extracted_sections[1].document = resp.input_documents[2]

\* document id doc_id is stored, as doc_id.pdf or as doc_id.json
Stored(doc_id) == doc_id \o PdfExt \in Names \/ doc_id \o JsonExt \in Names

\* C30 (as claimed): list_pdfs returns the id of every document stored as
\* <id>.pdf or <id>.json, every id it returns resolves through get_pdf_path
\* and get_file_type, and a persona-analyze request naming stored documents
\* only (uploaded through save_pdf or save_json) passes the validation
\* "doc_id in list_pdfs()".
C30_ListingRoundTrip ==
    /\ \A n \in 1..MaxUploads : Stored(generate_doc_id(n)) => generate_doc_id(n) \in list_pdfs
    /\ \A doc_id \in list_pdfs :
          get_pdf_path(doc_id) # <<>> /\ get_file_type(doc_id) # "None"
    /\ (/\ resp.op = "persona" /\ resp.pre_dir = pdf_dir
        /\ \A i \in 1..Len(resp.doc_ids) : Stored(resp.doc_ids[i]))
       => resp.stage # "validate"
====
